---- MODULE Spec2Model ----
(***************************************************************************)
(* Response governance of the BFF: the StandardResponseEnvelope and its    *)
(* serialization, the two response builders, the error masking classifier  *)
(* mask_aws_error, the govenance_error_handler decorator and the global    *)
(* error handlers registered by register_error_handlers.                   *)
(*                                                                         *)
(* Python values are tagged records [t |-> <type name>, ...] so that the   *)
(* isinstance tests of the decorator are tests of the tag.  Dictionaries   *)
(* stored in an envelope are functions from keys to values; {} is the      *)
(* function with the empty domain.  A fault description is a sequence of   *)
(* one-character strings, so that lower() and the `in` substring test are  *)
(* computed character by character.                                        *)
(***************************************************************************)
EXTENDS Integers, Sequences, FiniteSets, TLC

\* ------------------------------------------------------------------ bounds
MaxRequests == 2     \* requests handled in one behaviour
MaxFragments == 2    \* fragments concatenated into one fault description

\* ------------------------------------------------------- text of a fault
UpperAlpha == <<"A", "B", "C", "D", "E", "F", "G", "H", "I", "J", "K", "L", "M", "N", "O", "P", "Q", "R", "S", "T", "U", "V", "W", "X", "Y", "Z">>

LowerAlpha == <<"a", "b", "c", "d", "e", "f", "g", "h", "i", "j", "k", "l", "m", "n", "o", "p", "q", "r", "s", "t", "u", "v", "w", "x", "y", "z">>

\* str.lower() on one character
LowerChar(c) ==
    IF \E i \in 1..Len(UpperAlpha) : UpperAlpha[i] = c
    THEN LowerAlpha[CHOOSE i \in 1..Len(UpperAlpha) : UpperAlpha[i] = c]
    ELSE c

\* str.lower()
lower(s) == [i \in 1..Len(s) |-> LowerChar(s[i])]

\* the Python test `kw in s` on strings: kw occurs as a contiguous substring
Contains(s, kw) ==
    \E i \in 0..(Len(s) - Len(kw)) :
        \A j \in 1..Len(kw) : s[i + j] = kw[j]

KwDynamodb == <<"d", "y", "n", "a", "m", "o", "d", "b">>

KwBotocore == <<"b", "o", "t", "o", "c", "o", "r", "e">>

KwIam == <<"i", "a", "m">>

KwUnauthorized == <<"u", "n", "a", "u", "t", "h", "o", "r", "i", "z", "e", "d">>

KwLambda == <<"l", "a", "m", "b", "d", "a">>

KwService == <<"s", "e", "r", "v", "i", "c", "e">>

\* mask_aws_error with the identity rule tried before the data-store rule
mask_identity_first(error) ==
    LET error_str == lower(error.desc) IN
    IF Contains(error_str, KwIam) \/ Contains(error_str, KwUnauthorized)
    THEN <<"Access denied", "AUTH_ERROR">>
    ELSE IF Contains(error_str, KwDynamodb) \/ Contains(error_str, KwBotocore)
    THEN <<"Database operation failed", "DB_ERROR">>
    ELSE IF Contains(error_str, KwLambda) \/ Contains(error_str, KwService)
    THEN <<"Service unavailable", "SERVICE_ERROR">>
    ELSE <<"Internal server error", "INTERNAL_ERROR">>

\* mask_aws_error: error is an exception [type, desc]; str(error) is desc
mask_aws_error(error) ==
    LET error_str == lower(error.desc) IN
    IF Contains(error_str, KwDynamodb) \/ Contains(error_str, KwBotocore)
    THEN <<"Database operation failed", "DB_ERROR">>
    ELSE IF Contains(error_str, KwIam) \/ Contains(error_str, KwUnauthorized)
    THEN <<"Access denied", "AUTH_ERROR">>
    ELSE IF Contains(error_str, KwLambda) \/ Contains(error_str, KwService)
    THEN <<"Service unavailable", "SERVICE_ERROR">>
    ELSE <<"Internal server error", "INTERNAL_ERROR">>

\* generate_execution_id that hands out one token again and again
generate_same_id(n) == 1

\* generate_execution_id: str(uuid.uuid4()); the n-th token drawn is token n,
\* different from every token drawn before it
generate_execution_id(n) == n

\* ---------------------------------------------------------- Python values
None == [t |-> "NoneType"]

EmptyDict == [k \in {} |-> ""]

PyDict(d) == [t |-> "dict", v |-> d]

PyStr(s) == [t |-> "str", v |-> s]

PyInt(n) == [t |-> "int", v |-> n]

PyTuple(items) == [t |-> "tuple", v |-> items]

isinstance(x, type) == x.t = type

\* repr(x) in the place of str(x): a string comes out in quotes
repr(x) ==
    CASE x.t = "str" -> "'" \o x.v \o "'"
      [] x.t = "int" -> ToString(x.v)
      [] x.t = "NoneType" -> "None"
      [] x.t = "dict" ->
            IF DOMAIN x.v = {} THEN "{}"
            ELSE LET k == CHOOSE k \in DOMAIN x.v : TRUE
                 IN "{'" \o k \o "': '" \o x.v[k] \o "'}"

\* str(x) for the values a handler returns; a dict is rendered as Python
\* renders it (single quotes, ": " between key and value)
str(x) ==
    CASE x.t = "str" -> x.v
      [] x.t = "int" -> ToString(x.v)
      [] x.t = "NoneType" -> "None"
      [] x.t = "dict" ->
            IF DOMAIN x.v = {} THEN "{}"
            ELSE LET k == CHOOSE k \in DOMAIN x.v : TRUE
                 IN "{'" \o k \o "': '" \o x.v[k] \o "'}"

\* ------------------------------------------------------------- envelopes
ResponseMeta(execution_id, stage) ==
    [execution_id |-> execution_id, stage |-> stage]

StandardResponseEnvelope(success, data, error, meta) ==
    [t |-> "StandardResponseEnvelope", success |-> success, data |-> data,
     error |-> error, meta |-> meta]

\* to_dict that emits the data field as it is
to_dict_raw_data(self) ==
    [success |-> self.success,
     data |-> self.data,
     error |-> IF ~self.success THEN self.error ELSE None,
     meta |-> [execution_id |-> self.meta.execution_id,
               stage |-> self.meta.stage]]

\* StandardResponseEnvelope.to_dict
to_dict(self) ==
    [success |-> self.success,
     data |-> IF self.success THEN self.data ELSE EmptyDict,
     error |-> IF ~self.success THEN self.error ELSE None,
     meta |-> [execution_id |-> self.meta.execution_id,
               stage |-> self.meta.stage]]

create_success_response(data, execution_id, stage) ==
    StandardResponseEnvelope(TRUE, data, None, ResponseMeta(execution_id, stage))

\* `if details:` is false for None and for the empty dict
Truthy(details) == details # None /\ DOMAIN details # {}

create_error_response(error_message, error_code, execution_id, stage, details) ==
    LET error_dict == [message |-> error_message, code |-> error_code] IN
    StandardResponseEnvelope(
        FALSE, EmptyDict,
        IF Truthy(details)
        THEN [k \in {"message", "code", "details"} |->
                 IF k = "details" THEN details ELSE error_dict[k]]
        ELSE error_dict,
        ResponseMeta(execution_id, stage))

\* format_response_for_api that drops the status it is given
format_response_default_status(response, status_code) ==
    [body |-> to_dict(response), status |-> 200]

\* format_response_for_api: (jsonify(response.to_dict()), status_code)
format_response_for_api(response, status_code) ==
    [body |-> to_dict(response), status |-> status_code]

\* ------------------------------------------------------------------ inputs
\* pieces a fault description is made of, in several letter cases
Fragments == {
    <<"D", "y", "n", "a", "m", "o", "D", "B">>,
    <<" ", "p", "r", "o", "v", "i", "s", "i", "o", "n", "e", "d", " ", "t", "h", "r", "o", "u", "g", "h", "p", "u", "t", " ", "e", "x", "c", "e", "e", "d", "e", "d">>,
    <<"B", "O", "T", "O", "C", "O", "R", "E">>,
    <<"I", "A", "M">>,
    <<"W", "i", "l", "l">>,
    <<"i", "a", "m">>,
    <<"U", "n", "a", "u", "t", "h", "o", "r", "i", "z", "e", "d">>,
    <<"L", "a", "m", "b", "d", "a">>,
    <<"S", "E", "R", "V", "I", "C", "E">>,
    <<"t", "i", "m", "e", "o", "u", "t", " ">> }

RECURSIVE Flatten(_)
Flatten(fs) == IF fs = <<>> THEN <<>> ELSE Head(fs) \o Flatten(Tail(fs))

Descriptions ==
    { Flatten(fs) : fs \in UNION { [1..n -> Fragments] : n \in 0..MaxFragments } }

\* the scenario text "DynamoDB provisioned throughput exceeded"
ThroughputExceeded ==
    <<"D", "y", "n", "a", "m", "o", "D", "B">> \o <<" ", "p", "r", "o", "v", "i", "s", "i", "o", "n", "e", "d", " ", "t", "h", "r", "o", "u", "g", "h", "p", "u", "t", " ", "e", "x", "c", "e", "e", "d", "e", "d">>

Faults == { [type |-> "ClientError", desc |-> d] : d \in Descriptions }

\* statuses a handler pairs with its return value
Statuses == {200, 404}

Payloads == { [foo |-> "bar"], EmptyDict }

ErrorDicts ==
    { [message |-> "Resource not found", code |-> "NOT_FOUND"],
      [message |-> "Rate exceeded", code |-> "ThrottlingException"] }

\* how a handler makes the envelope it returns
Builds ==
    { [via |-> "create_success_response", data |-> d] : d \in Payloads }
    \cup { [via |-> "create_error_response", error |-> e, details |-> x] :
             e \in ErrorDicts, x \in {None, EmptyDict, [field |-> "name"]} }
    \cup { [via |-> "StandardResponseEnvelope", success |-> b, data |-> d, error |-> e] :
             b \in BOOLEAN, d \in Payloads, e \in {None} \cup ErrorDicts }

\* values that are not envelopes
RawValues == { PyDict([foo |-> "bar"]), PyDict(EmptyDict), PyStr("ok"), PyInt(7), None }

\* the route handlers of the repository and the shapes a wrapped handler can
\* return or raise
Handlers ==
    { [op |-> "start_execution"], [op |-> "connect_repo"], [op |-> "health_check"],
      [op |-> "get_execution", id |-> "e-1"] }
    \cup { [op |-> "login", AUTH_BYPASS |-> b] : b \in BOOLEAN }
    \cup { [op |-> "envelope", build |-> b, paired |-> FALSE, status |-> 200] : b \in Builds }
    \cup { [op |-> "envelope", build |-> b, paired |-> TRUE, status |-> s] :
             b \in Builds, s \in Statuses }
    \cup { [op |-> "value", value |-> v, paired |-> FALSE, status |-> 200] : v \in RawValues }
    \cup { [op |-> "value", value |-> v, paired |-> TRUE, status |-> s] :
             v \in RawValues, s \in Statuses }
    \cup { [op |-> "tuple", n |-> n] : n \in {1, 3} }
    \cup { [op |-> "raise", exc |-> e] : e \in Faults }

NoHandler == [op |-> "none"]

NoOutcome == [kind |-> "none"]

Returned(value, ids) == [kind |-> "return", value |-> value, ids |-> ids]

Raised(exc, ids) == [kind |-> "raise", exc |-> exc, ids |-> ids]

\* the envelope a handler builds with the identifier it generated itself
Build(b, id) ==
    CASE b.via = "create_success_response" ->
            create_success_response(b.data, id, "ASK")
      [] b.via = "create_error_response" ->
            create_error_response(b.error.message, b.error.code, id, "ASK", b.details)
      [] b.via = "StandardResponseEnvelope" ->
            StandardResponseEnvelope(b.success, b.data, b.error, ResponseMeta(id, "ASK"))

\* f(*args, **kwargs): what handler h returns or raises; id is the value its
\* own call of generate_execution_id() yields, ids the number of such calls
start_execution(id) ==
    Returned(PyTuple(<<create_success_response(
        [execution_id |-> id, status |-> "started",
         message |-> "Execution workflow started successfully"], id, "ASK"),
        PyInt(202)>>), 1)

get_execution(path_id, id) ==
    Returned(PyTuple(<<create_success_response(
        [execution_id |-> path_id, status |-> "completed",
         message |-> "Execution details retrieved successfully", stage |-> "ASK"],
        id, "ASK"), PyInt(200)>>), 1)

login(AUTH_BYPASS, id) ==
    IF AUTH_BYPASS
    THEN Returned(PyTuple(<<create_success_response(
            [token |-> "mock-token-local-mode", auth_bypass |-> TRUE,
             message |-> "Authentication bypassed (local mode)"], id, "ASK"),
            PyInt(200)>>), 1)
    ELSE Returned(PyTuple(<<create_success_response(
            [token |-> "mock-token-aws-mode", auth_bypass |-> FALSE,
             message |-> "Authentication successful"], id, "ASK"),
            PyInt(200)>>), 1)

connect_repo(id) ==
    Returned(PyTuple(<<create_success_response(
        [repository_id |-> "mock-repo-id-12345", connection_status |-> "active",
         message |-> "Repository connected successfully"], id, "ASK"),
        PyInt(201)>>), 1)

health_check(id) ==
    Returned(PyTuple(<<create_success_response(
        [service |-> "NexusOps BFF", environment |-> "local", auth_bypass |-> TRUE],
        id, "ASK"), PyInt(200)>>), 1)

Call(h, id) ==
    CASE h.op = "start_execution" -> start_execution(id)
      [] h.op = "get_execution" -> get_execution(h.id, id)
      [] h.op = "login" -> login(h.AUTH_BYPASS, id)
      [] h.op = "connect_repo" -> connect_repo(id)
      [] h.op = "health_check" -> health_check(id)
      [] h.op = "envelope" ->
            IF h.paired
            THEN Returned(PyTuple(<<Build(h.build, id), PyInt(h.status)>>), 1)
            ELSE Returned(Build(h.build, id), 1)
      [] h.op = "value" ->
            IF h.paired
            THEN Returned(PyTuple(<<h.value, PyInt(h.status)>>), 0)
            ELSE Returned(h.value, 0)
      [] h.op = "tuple" ->
            IF h.n = 1
            THEN Returned(PyTuple(<<PyDict([foo |-> "bar"])>>), 0)
            ELSE Returned(PyTuple(<<PyDict([foo |-> "bar"]), PyInt(200), PyStr("extra")>>), 0)
      [] h.op = "raise" -> Raised(h.exc, 0)

\* ------------------------------------------------------------- the wrapper
WarningEntry(execution_id) ==
    [level |-> "WARNING", execution_id |-> execution_id,
     text |-> "returned non-StandardResponseEnvelope response"]

ErrorEntry(execution_id, exc) ==
    [level |-> "ERROR", execution_id |-> execution_id,
     text |-> exc.type, detail |-> exc.desc]

\* ValueError of `data, status = result` for a tuple of n # 2 items
UnpackError(n) ==
    [type |-> "ValueError",
     desc |-> IF n > 2
              THEN <<"t", "o", "o", " ", "m", "a", "n", "y", " ", "v", "a", "l", "u", "e", "s", " ", "t", "o", " ", "u", "n", "p", "a", "c", "k", " ", "(", "e", "x", "p", "e", "c", "t", "e", "d", " ", "2", ")">>
              ELSE <<"n", "o", "t", " ", "e", "n", "o", "u", "g", "h", " ", "v", "a", "l", "u", "e", "s", " ", "t", "o", " ", "u", "n", "p", "a", "c", "k", " ", "(", "e", "x", "p", "e", "c", "t", "e", "d", " ", "2", ",", " ", "g", "o", "t", " ">>
                   \o <<ToString(n), ")">>]

\* a try block that unpacks the tuple before it logs the warning
TryBlockUnpackFirst(result, execution_id) ==
    IF isinstance(result, "StandardResponseEnvelope")
    THEN [kind |-> "return", envelope |-> result, status |-> 200, log |-> <<>>]
    ELSE IF /\ isinstance(result, "tuple")
            /\ Len(result.v) = 2
            /\ isinstance(result.v[1], "StandardResponseEnvelope")
    THEN [kind |-> "return", envelope |-> result.v[1], status |-> result.v[2].v,
          log |-> <<>>]
    ELSE IF isinstance(result, "tuple")
    THEN IF Len(result.v) # 2
         THEN [kind |-> "raise", exc |-> UnpackError(Len(result.v)),
               log |-> <<>>]
         ELSE LET data == result.v[1]
                  status == result.v[2]
              IN [kind |-> "return",
                  envelope |-> create_success_response(
                      IF isinstance(data, "dict") THEN data.v
                      ELSE [result |-> str(data)],
                      execution_id, "ASK"),
                  status |-> status.v,
                  log |-> <<WarningEntry(execution_id)>>]
    ELSE [kind |-> "return",
          envelope |-> create_success_response([result |-> str(result)],
                                               execution_id, "ASK"),
          status |-> 200,
          log |-> <<WarningEntry(execution_id)>>]

\* the try block of decorated_function after f has returned result: the
\* envelope and status it hands to format_response_for_api, or the fault it
\* raises, and the entries it logs first
TryBlock(result, execution_id) ==
    IF isinstance(result, "StandardResponseEnvelope")
    THEN [kind |-> "return", envelope |-> result, status |-> 200, log |-> <<>>]
    ELSE IF /\ isinstance(result, "tuple")
            /\ Len(result.v) = 2
            /\ isinstance(result.v[1], "StandardResponseEnvelope")
    THEN [kind |-> "return", envelope |-> result.v[1], status |-> result.v[2].v,
          log |-> <<>>]
    ELSE IF isinstance(result, "tuple")
    THEN IF Len(result.v) # 2
         THEN [kind |-> "raise", exc |-> UnpackError(Len(result.v)),
               log |-> <<WarningEntry(execution_id)>>]
         ELSE LET data == result.v[1]
                  status == result.v[2]
              IN [kind |-> "return",
                  envelope |-> create_success_response(
                      IF isinstance(data, "dict") THEN data.v
                      ELSE [result |-> str(data)],
                      execution_id, "ASK"),
                  status |-> status.v,
                  log |-> <<WarningEntry(execution_id)>>]
    ELSE [kind |-> "return",
          envelope |-> create_success_response([result |-> str(result)],
                                               execution_id, "ASK"),
          status |-> 200,
          log |-> <<WarningEntry(execution_id)>>]

\* the HTTP status the except block picks for an error code
StatusFor(error_code) ==
    IF error_code = "VALIDATION_ERROR" THEN 400
    ELSE IF error_code = "AUTH_ERROR" THEN 403
    ELSE IF error_code = "NOT_FOUND" THEN 404
    ELSE 500

\* an except block that attaches the fault's text as details
ExceptBlockWithDetails(e, execution_id) ==
    LET masked == mask_aws_error(e)
        response == create_error_response(masked[1], masked[2], execution_id, "ASK",
                                          [exception |-> e.type, text |-> e.desc])
    IN [envelope |-> response, status |-> StatusFor(masked[2]),
        log |-> <<ErrorEntry(execution_id, e)>>]

\* the except block of decorated_function
ExceptBlock(e, execution_id) ==
    LET masked == mask_aws_error(e)
        safe_message == masked[1]
        error_code == masked[2]
        response == create_error_response(safe_message, error_code, execution_id, "ASK", None)
    IN [envelope |-> response, status |-> StatusFor(error_code),
        log |-> <<ErrorEntry(execution_id, e)>>]

\* --------------------------------------------------------------- the state
VARIABLES
    state,          \* "IDLE", "RUNNING", "NORMALIZING" or "RESPONDED"
    origin,         \* the function that answers the current request
    reqs,           \* requests received
    nextId,         \* the next value of generate_execution_id()
    issued,         \* identifiers generated for earlier requests
    generated,      \* identifiers generated for the current request, in order
    execution_id,   \* the local execution_id of the answering function
    handler,        \* the wrapped route handler f
    calls,          \* invocations of f for the current request
    outcome,        \* what f returned or raised / the error handed to a handler
    log,            \* entries written to the logger for the current request
    envelope,       \* the envelope handed to format_response_for_api
    response        \* the (body, status) returned to the transport

vars == <<state, origin, reqs, nextId, issued, generated, execution_id,
          handler, calls, outcome, log, envelope, response>>

NoResponse == [body |-> None, status |-> 0]

Init ==
    /\ state = "IDLE"
    /\ origin = "none"
    /\ reqs = 0
    /\ nextId = 1
    /\ issued = {}
    /\ generated = <<>>
    /\ execution_id = 0
    /\ handler = NoHandler
    /\ calls = 0
    /\ outcome = NoOutcome
    /\ log = <<>>
    /\ envelope = None
    /\ response = NoResponse

\* a new request can arrive when none is being handled
Accepting == state = "IDLE" /\ reqs < MaxRequests

\* decorated_function is entered for a request routed to f = h:
\* execution_id = generate_execution_id()
Enter(h) ==
    /\ Accepting
    /\ state' = "RUNNING"
    /\ origin' = "decorated_function"
    /\ reqs' = reqs + 1
    /\ issued' = 1..(nextId - 1)
    /\ execution_id' = generate_execution_id(nextId)
    /\ generated' = <<generate_execution_id(nextId)>>
    /\ nextId' = nextId + 1
    /\ handler' = h
    /\ calls' = 0
    /\ outcome' = NoOutcome
    /\ log' = <<>>
    /\ envelope' = None
    /\ response' = NoResponse

\* result = f(*args, **kwargs)
Invoke ==
    /\ state = "RUNNING"
    /\ LET r == Call(handler, generate_execution_id(nextId)) IN
        /\ outcome' = r
        /\ nextId' = nextId + r.ids
        /\ generated' = IF r.ids = 1
                        THEN Append(generated, generate_execution_id(nextId))
                        ELSE generated
    /\ calls' = calls + 1
    /\ state' = "NORMALIZING"
    /\ UNCHANGED <<origin, reqs, issued, execution_id, handler, log, envelope,
                   response>>

\* a decorated_function that calls f once more after a fault
RespondRetrying ==
    /\ state = "NORMALIZING"
    /\ LET tried == IF outcome.kind = "raise"
                    THEN [kind |-> "raise", exc |-> outcome.exc, log |-> <<>>]
                    ELSE TryBlock(outcome.value, execution_id)
       IN IF tried.kind = "return"
          THEN /\ envelope' = tried.envelope
               /\ response' = format_response_for_api(tried.envelope, tried.status)
               /\ log' = log \o tried.log
               /\ state' = "RESPONDED"
          ELSE IF calls < 2
          THEN /\ state' = "RUNNING"
               /\ log' = log \o tried.log
               /\ UNCHANGED <<envelope, response>>
          ELSE LET caught == ExceptBlock(tried.exc, execution_id)
               IN /\ envelope' = caught.envelope
                  /\ response' = format_response_for_api(caught.envelope, caught.status)
                  /\ log' = log \o tried.log \o caught.log
                  /\ state' = "RESPONDED"
    /\ UNCHANGED <<origin, reqs, nextId, issued, generated, execution_id,
                   handler, calls, outcome>>

\* the rest of decorated_function: the try block on the result, the except
\* block on a fault of f or of the try block, and the return
Respond ==
    /\ state = "NORMALIZING"
    /\ LET tried == IF outcome.kind = "raise"
                    THEN [kind |-> "raise", exc |-> outcome.exc, log |-> <<>>]
                    ELSE TryBlock(outcome.value, execution_id)
       IN IF tried.kind = "return"
          THEN /\ envelope' = tried.envelope
               /\ response' = format_response_for_api(tried.envelope, tried.status)
               /\ log' = log \o tried.log
          ELSE LET caught == ExceptBlock(tried.exc, execution_id)
               IN /\ envelope' = caught.envelope
                  /\ response' = format_response_for_api(caught.envelope, caught.status)
                  /\ log' = log \o tried.log \o caught.log
    /\ state' = "RESPONDED"
    /\ UNCHANGED <<origin, reqs, nextId, issued, generated, execution_id,
                   handler, calls, outcome>>

\* ------------------------------------------- the global error handlers
\* what every error handler does first: execution_id = generate_execution_id()
Begin(name, error) ==
    /\ Accepting
    /\ state' = "RESPONDED"
    /\ origin' = name
    /\ reqs' = reqs + 1
    /\ issued' = 1..(nextId - 1)
    /\ execution_id' = generate_execution_id(nextId)
    /\ generated' = <<generate_execution_id(nextId)>>
    /\ nextId' = nextId + 1
    /\ handler' = NoHandler
    /\ calls' = 0
    /\ outcome' = error

bad_request ==
    /\ Begin("bad_request", NoOutcome)
    /\ log' = <<>>
    /\ envelope' = create_error_response("Invalid request format", "VALIDATION_ERROR",
                                         generate_execution_id(nextId), "ASK", None)
    /\ response' = format_response_for_api(envelope', 400)

forbidden ==
    /\ Begin("forbidden", NoOutcome)
    /\ log' = <<>>
    /\ envelope' = create_error_response("Access denied", "AUTH_ERROR",
                                         generate_execution_id(nextId), "ASK", None)
    /\ response' = format_response_for_api(envelope', 403)

not_found ==
    /\ Begin("not_found", NoOutcome)
    /\ log' = <<>>
    /\ envelope' = create_error_response("Resource not found", "NOT_FOUND",
                                         generate_execution_id(nextId), "ASK", None)
    /\ response' = format_response_for_api(envelope', 404)

internal_error(error) ==
    /\ Begin("internal_error", Raised(error, 0))
    /\ log' = <<ErrorEntry(generate_execution_id(nextId), error)>>
    /\ LET masked == mask_aws_error(error) IN
       envelope' = create_error_response(masked[1], masked[2],
                                         generate_execution_id(nextId), "ASK", None)
    /\ response' = format_response_for_api(envelope', 500)

unhandled_exception(error) ==
    /\ Begin("unhandled_exception", Raised(error, 0))
    /\ log' = <<ErrorEntry(generate_execution_id(nextId), error)>>
    /\ LET masked == mask_aws_error(error) IN
       envelope' = create_error_response(masked[1], masked[2],
                                         generate_execution_id(nextId), "ASK", None)
    /\ response' = format_response_for_api(envelope', 500)

\* the transport has written the response; the per-request state (the locals
\* of the answering function and its envelope) is gone
Discard ==
    /\ state = "RESPONDED"
    /\ state' = "IDLE"
    /\ origin' = "none"
    /\ issued' = {}
    /\ generated' = <<>>
    /\ execution_id' = 0
    /\ handler' = NoHandler
    /\ calls' = 0
    /\ outcome' = NoOutcome
    /\ log' = <<>>
    /\ envelope' = None
    /\ response' = NoResponse
    /\ UNCHANGED <<reqs, nextId>>

Next ==
    \/ \E h \in Handlers : Enter(h)
    \/ Invoke
    \/ Respond
    \/ bad_request
    \/ forbidden
    \/ not_found
    \/ \E error \in Faults : internal_error(error)
    \/ \E error \in Faults : unhandled_exception(error)
    \/ Discard

Spec == Init /\ [][Next]_vars

\* requests through the wrapper only, with the faults of one fragment
WrappedHandlers ==
    { h \in Handlers : h.op = "raise" => h.exc.desc \in Fragments }

NextWrapped ==
    \/ \E h \in WrappedHandlers : Enter(h)
    \/ Invoke
    \/ Respond
    \/ Discard

\* once f has returned or raised, the rest of decorated_function is code
\* without a loop or a wait: it runs to its return
FairSpec == Init /\ [][NextWrapped]_vars /\ WF_vars(Respond)

\* ------------------------------------------------------------ properties
Responded == state = "RESPONDED"

Wrapped == origin = "decorated_function"

\* the wrapped handler raised (the try block itself did not)
HandlerRaised == Wrapped /\ outcome.kind = "raise"

SafePairs ==
    { <<"Database operation failed", "DB_ERROR">>,
      <<"Access denied", "AUTH_ERROR">>,
      <<"Service unavailable", "SERVICE_ERROR">>,
      <<"Internal server error", "INTERNAL_ERROR">> }

\* C1: a fault raised by a wrapped handler is answered with success=false,
\* data={} and error = exactly the {message, code} pair mask_aws_error gives
\* for the fault (one of the four fixed pairs, no details), with status 403
\* for AUTH_ERROR and 500 for the other three codes; the fault "DynamoDB
\* provisioned throughput exceeded" gives 500, "Database operation failed",
\* "DB_ERROR".
C1_FaultIsMasked ==
    (Responded /\ HandlerRaised) =>
        LET pair == mask_aws_error(outcome.exc) IN
        /\ pair \in SafePairs
        /\ response.body.success = FALSE
        /\ response.body.data = EmptyDict
        /\ response.body.error = [message |-> pair[1], code |-> pair[2]]
        /\ response.status = (IF pair[2] = "AUTH_ERROR" THEN 403 ELSE 500)
        /\ (outcome.exc.desc = ThroughputExceeded =>
                /\ response.status = 500
                /\ response.body.error =
                       [message |-> "Database operation failed", code |-> "DB_ERROR"])

C1_Witness ==
    /\ Responded /\ HandlerRaised
    /\ outcome.exc.desc = ThroughputExceeded
    /\ response.status = 500
    /\ response.body.error.code = "DB_ERROR"

\* C2: a wrapped handler that returns the plain mapping {"foo": "bar"} with
\* no status is answered with status 200, success=true, error=null and
\* data = {"foo": "bar"}, and exactly one warning is logged.
C2_PlainMappingIsData ==
    (/\ Responded /\ Wrapped
     /\ outcome.kind = "return"
     /\ outcome.value.t = "dict"
     /\ outcome.value.v = [foo |-> "bar"]) =>
        /\ response.status = 200
        /\ response.body.success = TRUE
        /\ response.body.error = None
        /\ response.body.data = [foo |-> "bar"]
        /\ Len(log) = 1
        /\ log[1].level = "WARNING"

\* kw (lower case letters) occurs in desc in any letter case
Mentions(desc, kw) ==
    \E i \in 0..(Len(desc) - Len(kw)) :
        \A j \in 1..Len(kw) :
            \E n \in 1..Len(LowerAlpha) :
                /\ LowerAlpha[n] = kw[j]
                /\ desc[i + j] \in {LowerAlpha[n], UpperAlpha[n]}

DataStoreFault(desc) == Mentions(desc, KwDynamodb) \/ Mentions(desc, KwBotocore)

IdentityFault(desc) == Mentions(desc, KwIam) \/ Mentions(desc, KwUnauthorized)

ServiceFault(desc) == Mentions(desc, KwLambda) \/ Mentions(desc, KwService)

\* a response made from mask_aws_error applied to the fault in outcome
MaskedResponse ==
    /\ Responded
    /\ outcome.kind = "raise"
    /\ origin \in {"decorated_function", "internal_error", "unhandled_exception"}

\* C3: mask_aws_error gives, for a fault description in any letter case, the
\* pair of the first rule in the order data-store > identity > service whose
\* keyword occurs, the default pair when none occurs, and never
\* VALIDATION_ERROR or NOT_FOUND.
C3_MaskPriority ==
    MaskedResponse =>
        LET desc == outcome.exc.desc
            pair == <<response.body.error.message, response.body.error.code>>
        IN /\ DataStoreFault(desc) =>
                  pair = <<"Database operation failed", "DB_ERROR">>
           /\ (~DataStoreFault(desc) /\ IdentityFault(desc)) =>
                  pair = <<"Access denied", "AUTH_ERROR">>
           /\ (~DataStoreFault(desc) /\ ~IdentityFault(desc) /\ ServiceFault(desc)) =>
                  pair = <<"Service unavailable", "SERVICE_ERROR">>
           /\ (~DataStoreFault(desc) /\ ~IdentityFault(desc) /\ ~ServiceFault(desc)) =>
                  pair = <<"Internal server error", "INTERNAL_ERROR">>
           /\ pair[2] \notin {"VALIDATION_ERROR", "NOT_FOUND"}

\* a description with an upper-case identity keyword before a mixed-case
\* data-store keyword is answered by the data-store rule
C3_Witness ==
    /\ MaskedResponse
    /\ outcome.exc.desc = <<"I", "A", "M">> \o <<"D", "y", "n", "a", "m", "o", "D", "B">>
    /\ response.body.error.code = "DB_ERROR"

ErrorCodes ==
    {"VALIDATION_ERROR", "AUTH_ERROR", "NOT_FOUND", "DB_ERROR", "SERVICE_ERROR",
     "INTERNAL_ERROR"}

\* C4: every response with a non-null error, from any path of the wrapper
\* (pass-through of a handler-built envelope included) or from an error
\* handler, has error.code among the six codes.
C4_ClosedCodes ==
    (Responded /\ response.body.error # None) =>
        response.body.error.code \in ErrorCodes

\* C5: every serialized envelope, built by a builder or by a handler itself,
\* has success=true => error null and data the supplied payload, and
\* success=false => data = {} and error non-null.
C5_DataErrorExclusive ==
    Responded =>
        /\ response.body.success =>
              /\ response.body.error = None
              /\ response.body.data = envelope.data
        /\ ~response.body.success =>
              /\ response.body.data = EmptyDict
              /\ response.body.error # None

\* C6: to_dict gives, for every envelope, a mapping with exactly the keys
\* success, data, error, meta, with data = {} when success is false and
\* error null when success is true, success and meta as in the envelope,
\* and the envelope a handler returned keeps its fields.
C6_ToDictShape ==
    Responded =>
        /\ DOMAIN response.body = {"success", "data", "error", "meta"}
        /\ response.body.success = envelope.success
        /\ ~envelope.success => response.body.data = EmptyDict
        /\ envelope.success => response.body.error = None
        /\ DOMAIN response.body.meta = {"execution_id", "stage"}
        /\ response.body.meta.execution_id = envelope.meta.execution_id
        /\ response.body.meta.stage = envelope.meta.stage
        /\ (Wrapped /\ outcome.kind = "return"
                /\ outcome.value.t = "StandardResponseEnvelope") =>
              envelope = outcome.value

\* an envelope with success false that carries data and one with success
\* true that carries an error have both been serialized
C6_Witness ==
    /\ Responded
    /\ ~envelope.success
    /\ envelope.data = [foo |-> "bar"]
    /\ envelope.error = None
    /\ response.body.data = EmptyDict

\* the handler returned an envelope, alone or paired with a status
ReturnedAlone ==
    /\ Wrapped /\ outcome.kind = "return"
    /\ outcome.value.t = "StandardResponseEnvelope"

ReturnedPaired ==
    /\ Wrapped /\ outcome.kind = "return"
    /\ outcome.value.t = "tuple"
    /\ Len(outcome.value.v) = 2
    /\ outcome.value.v[1].t = "StandardResponseEnvelope"

HandlerEnvelope == IF ReturnedAlone THEN outcome.value ELSE outcome.value.v[1]

\* the original statement of C7: the response is the handler's envelope,
\* field by field
C7_PassThroughUnchanged ==
    (Responded /\ (ReturnedAlone \/ ReturnedPaired)) =>
        /\ ReturnedAlone => response.status = 200
        /\ ReturnedPaired => response.status = outcome.value.v[2].v
        /\ response.body.success = HandlerEnvelope.success
        /\ response.body.data = HandlerEnvelope.data
        /\ response.body.error = HandlerEnvelope.error
        /\ response.body.meta = HandlerEnvelope.meta
        /\ log = <<>>

\* C7: an envelope returned by the handler is answered with status 200 when
\* alone and with the paired status otherwise, logs no warning, and the
\* response has its success and meta, its data when success is true and {}
\* otherwise, its error when success is false and null otherwise; so the
\* four fields are the envelope's own whenever the envelope has error null
\* on success and data {} on failure.
C7_PassThroughNormalized ==
    (Responded /\ (ReturnedAlone \/ ReturnedPaired)) =>
        /\ ReturnedAlone => response.status = 200
        /\ ReturnedPaired => response.status = outcome.value.v[2].v
        /\ response.body.success = HandlerEnvelope.success
        /\ response.body.meta = HandlerEnvelope.meta
        /\ response.body.data =
              (IF HandlerEnvelope.success THEN HandlerEnvelope.data ELSE EmptyDict)
        /\ response.body.error =
              (IF HandlerEnvelope.success THEN None ELSE HandlerEnvelope.error)
        /\ ((HandlerEnvelope.success => HandlerEnvelope.error = None)
               /\ (~HandlerEnvelope.success => HandlerEnvelope.data = EmptyDict)) =>
              /\ response.body.data = HandlerEnvelope.data
              /\ response.body.error = HandlerEnvelope.error
        /\ log = <<>>

\* an error envelope paired with 404 went through
C7_Witness ==
    /\ Responded /\ ReturnedPaired
    /\ outcome.value.v[2].v = 404
    /\ ~HandlerEnvelope.success
    /\ HandlerEnvelope.error = [message |-> "Resource not found", code |-> "NOT_FOUND"]
    /\ response.status = 404

\* C8: in every response with success=false, from the wrapper or from an
\* error handler, the status is 400 for VALIDATION_ERROR, 403 for AUTH_ERROR,
\* 404 for NOT_FOUND and 500 for every other code.
C8_StatusMatchesCode ==
    (Responded /\ ~response.body.success /\ response.body.error # None) =>
        LET code == response.body.error.code IN
        /\ code = "VALIDATION_ERROR" => response.status = 400
        /\ code = "AUTH_ERROR" => response.status = 403
        /\ code = "NOT_FOUND" => response.status = 404
        /\ code \notin {"VALIDATION_ERROR", "AUTH_ERROR", "NOT_FOUND"} =>
              response.status = 500

\* the identifier in the response was generated for this request and for
\* no request before it
FreshId ==
    /\ generated = <<response.body.meta.execution_id>>
    /\ response.body.meta.execution_id \notin issued

\* C9: each error handler answers with success=false, data={}, its fixed
\* code and status (VALIDATION_ERROR/400, AUTH_ERROR/403, NOT_FOUND/404, and
\* the pair mask_aws_error gives for the fault with 500 for internal_error
\* and unhandled_exception), under a freshly generated execution_id.
C9_ErrorHandlers ==
    (Responded /\ ~Wrapped) =>
        /\ response.body.success = FALSE
        /\ response.body.data = EmptyDict
        /\ FreshId
        /\ origin = "bad_request" =>
              /\ response.body.error.code = "VALIDATION_ERROR"
              /\ response.status = 400
        /\ origin = "forbidden" =>
              /\ response.body.error.code = "AUTH_ERROR"
              /\ response.status = 403
        /\ origin = "not_found" =>
              /\ response.body.error.code = "NOT_FOUND"
              /\ response.status = 404
        /\ origin \in {"internal_error", "unhandled_exception"} =>
              /\ response.body.error =
                    [message |-> mask_aws_error(outcome.exc)[1],
                     code |-> mask_aws_error(outcome.exc)[2]]
              /\ response.status = 500

\* a second request hit an unmapped path
C9_Witness ==
    /\ Responded
    /\ origin = "not_found"
    /\ issued # {}
    /\ response.status = 404
    /\ response.body.error.code = "NOT_FOUND"

\* C10: for a request through a wrapped handler one execution_id is
\* generated, and it is the one in the response's meta and in every log
\* entry of the request.
C10_OneExecutionId ==
    (Responded /\ Wrapped) =>
        /\ Len(generated) = 1
        /\ response.body.meta.execution_id = execution_id
        /\ \A i \in 1..Len(log) : log[i].execution_id = execution_id

\* the handler built its envelope with create_error_response
BuiltError ==
    /\ Wrapped
    /\ handler.op = "envelope"
    /\ handler.build.via = "create_error_response"

\* C11: create_error_response gives success=false and data={}, attaches any
\* details mapping it is given, the empty one included, under error.details
\* as it is, and leaves error.details out only when details is null.
C11_DetailsAttached ==
    (Responded /\ BuiltError) =>
        /\ envelope.success = FALSE
        /\ envelope.data = EmptyDict
        /\ envelope.error.message = handler.build.error.message
        /\ envelope.error.code = handler.build.error.code
        /\ handler.build.details # None =>
              /\ "details" \in DOMAIN envelope.error
              /\ envelope.error.details = handler.build.details
        /\ handler.build.details = None =>
              "details" \notin DOMAIN envelope.error

\* the steps a request through the wrapper may take
LifecycleStep ==
    /\ (Wrapped /\ state = "RUNNING" /\ state' # state) => state' = "NORMALIZING"
    /\ (Wrapped /\ state = "NORMALIZING" /\ state' # state) => state' = "RESPONDED"
    /\ (Wrapped /\ state = "RESPONDED" /\ state' # state) => state' = "IDLE"
    /\ (Wrapped /\ state = "RESPONDED" /\ state' = "RESPONDED") =>
          UNCHANGED <<response, envelope, calls, log>>
    /\ (origin' = "decorated_function" /\ state' # "RESPONDED") =>
          response' = NoResponse

LifecycleState ==
    Wrapped =>
        /\ state \in {"RUNNING", "NORMALIZING", "RESPONDED"}
        /\ state = "RUNNING" => calls = 0
        /\ state \in {"NORMALIZING", "RESPONDED"} => calls = 1
        /\ (state = "RESPONDED" /\ outcome.kind = "raise") =>
              /\ response.body.success = FALSE
              /\ response.body.error # None

\* C12: a request through the wrapper goes RUNNING, NORMALIZING, RESPONDED
\* and nowhere else; f is invoked exactly once, also when it raised; once f
\* has returned or raised the request reaches RESPONDED with one (body,
\* status), which stays as it is while the request is RESPONDED; a fault of
\* f ends the request with an error envelope.
C12_Lifecycle ==
    /\ []LifecycleState
    /\ [][LifecycleStep]_vars
    /\ ((Wrapped /\ state = "NORMALIZING") ~> (Wrapped /\ state = "RESPONDED"))

C12_Witness ==
    /\ Responded /\ HandlerRaised
    /\ calls = 1
    /\ response.body.success = FALSE
    /\ response.status = 403

\* the handler returned a pair whose first item is not an envelope
PairedRaw ==
    /\ Wrapped /\ outcome.kind = "return"
    /\ outcome.value.t = "tuple"
    /\ Len(outcome.value.v) = 2
    /\ outcome.value.v[1].t # "StandardResponseEnvelope"

\* C13: a (value, status) pair whose value is not an envelope is answered,
\* after one coercion warning, with that status and a success envelope whose
\* data is the value when it is a mapping and {"result": str(value)}
\* otherwise, under the wrapper's execution_id and stage "ASK".
C13_PairCoerced ==
    (Responded /\ PairedRaw) =>
        LET value == outcome.value.v[1]
            status == outcome.value.v[2].v
        IN /\ Len(log) = 1
           /\ log[1].level = "WARNING"
           /\ response.status = status
           /\ response.body.success = TRUE
           /\ response.body.error = None
           /\ value.t = "dict" => response.body.data = value.v
           /\ value.t = "str" => response.body.data = [result |-> value.v]
           /\ (value.t = "int" /\ value.v = 7) => response.body.data = [result |-> "7"]
           /\ value.t = "NoneType" => response.body.data = [result |-> "None"]
           /\ response.body.meta = [execution_id |-> execution_id, stage |-> "ASK"]

\* the pair ("ok", 404) has been answered
C13_Witness ==
    /\ Responded /\ PairedRaw
    /\ outcome.value.v[1].t = "str"
    /\ outcome.value.v[2].v = 404
    /\ response.status = 404
    /\ response.body.data = [result |-> "ok"]

\* the handler returned a tuple that is not a pair
OddTuple ==
    /\ Wrapped /\ outcome.kind = "return"
    /\ outcome.value.t = "tuple"
    /\ Len(outcome.value.v) # 2

\* C14: a tuple of a length other than 2 is answered, after the coercion
\* warning and then an error entry for the unpacking fault, with the
\* INTERNAL_ERROR error envelope and status 500.
C14_UnpackFaultCaught ==
    (Responded /\ OddTuple) =>
        /\ Len(log) = 2
        /\ log[1].level = "WARNING"
        /\ log[2].level = "ERROR"
        /\ log[2].text = "ValueError"
        /\ log[1].execution_id = execution_id
        /\ log[2].execution_id = execution_id
        /\ response.status = 500
        /\ response.body.success = FALSE
        /\ response.body.data = EmptyDict
        /\ response.body.error =
              [message |-> "Internal server error", code |-> "INTERNAL_ERROR"]
        /\ response.body.meta.execution_id = execution_id

\* a tuple of three items has been answered
C14_Witness ==
    /\ Responded /\ OddTuple
    /\ Len(outcome.value.v) = 3
    /\ response.status = 500
    /\ response.body.error.code = "INTERNAL_ERROR"

====
